---- MODULE Spec2Model ----
(***************************************************************************)
(* Model of the routing/orchestration core of propertyai (src/workflow.py):*)
(* the AIAssistant facade, the LangGraph graph built by build_graph        *)
(* (router -> one handler -> END), the checkpointed per-thread state with  *)
(* its list-concatenation reducer, the context window of router_node and   *)
(* _run_agent, and the retry loop of _run_agent.                           *)
(*                                                                         *)
(* Two entry points are modelled.                                          *)
(*   SpecCall  the call AIAssistant().run_agent(msg, id) exactly as        *)
(*             written: run_local_chat executes line 295                   *)
(*             (collected_output = [], previous_messages = []), which      *)
(*             Python reads as the chained assignment                      *)
(*             collected_output = ([], previous_messages) = [] and which   *)
(*             raises ValueError on every call.                            *)
(*   Spec      the statements of run_local_chat from its first try block   *)
(*             (line 296) to its return, entered with both lists empty,    *)
(*             which is what line 295 is written to establish.  These      *)
(*             statements, the graph and the checkpointer are analysed as  *)
(*             written.                                                    *)
(*                                                                         *)
(* Text is a sequence of tokens; " " is the whitespace token and a fixed   *)
(* string of the source is one token.                                      *)
(***************************************************************************)
EXTENDS Integers, Sequences, FiniteSets, TLC

VARIABLES
    store,      \* InMemorySaver: thread_id -> latest checkpointed channel values
    call,       \* one record per call slot: position and locals of run_local_chat
    turns,      \* number of calls begun so far (bounds the exploration)
    done,       \* per identifier: how many turns ended with / without a handler delta
    probe,      \* input and output of route_after_router applied to a bare state
    facade,     \* class AIAssistant: its instance and what __init__ has created
    requests,   \* per call slot: model requests made so far by the turn's agent.run calls
    webhook,    \* the last WhatsApp payload processed and how its processing ended
    APPOINTMENTS_DB,  \* scheduling_tools.APPOINTMENTS_DB: the list of appointments
    now,        \* datetime.now(), in minutes
    tool        \* the last scheduling tool call: what it returned and when

toolVars == <<APPOINTMENTS_DB, now, tool>>

vars == <<store, call, turns, done, probe, facade, requests, webhook, toolVars>>

-----------------------------------------------------------------------------
(* Bounds of the exploration                                               *)

MaxTurns == 4

\* A turn may begin only while the stored transcript has at most this many entries.
MaxStored == 7

\* Turns begun in the exploration of turns with their model requests counted.
MaxCountedTurns == 2

\* Appointments the exploration of the scheduling tools lets the list hold.
MaxAppointments == 2

\* Hours the clock advances in the exploration of the scheduling tools.
MaxTicks == 1

\* Calls begun in the exploration of concurrent calls.
MaxConcTurns == 2

-----------------------------------------------------------------------------
(* Program constants                                                       *)

MAX_HISTORY_MESSAGES == 10

max_retries == 3

\* UsageLimits(request_limit=3)
request_limit == 3

\* api/routes/whatsapp.py
MAX_MESSAGE_LENGTH == 2000

Ids == {"A", "B"}

UserMessages == {"hello", "book a viewing"}

Calls == {1, 2}

None == "None"

Missing == "<missing>"

Handlers ==
    {"lead_qualification", "property_search", "property_details",
     "scheduling", "market_analysis", "faq", "general"}

END == "__end__"

EntryPoint == "router"

APOLOGY_GRAPH == <<"I apologize, but I encountered an error. Please try again.">>

APOLOGY_AGENT ==
    <<"I apologize, but I encountered an error. Please try again or rephrase your question.">>

GREETING ==
    <<"I'm here to help you with your real estate needs. How can I assist you today?">>

ROUTING_PREFIX == "[Routing to:"

-----------------------------------------------------------------------------
(* Python helpers                                                          *)

Max(a, b) == IF a >= b THEN a ELSE b

Min(a, b) == IF a <= b THEN a ELSE b

\* s[-n:] for n > 0
LastN(s, n) == SubSeq(s, Max(Len(s) - n, 0) + 1, Len(s))

Member(x, s) == \E i \in 1..Len(s) : s[i] = x

RECURSIVE LStrip(_)
LStrip(t) == IF t # <<>> /\ Head(t) = " " THEN LStrip(Tail(t)) ELSE t

RECURSIVE RStrip(_)
RStrip(t) ==
    IF t # <<>> /\ t[Len(t)] = " " THEN RStrip(SubSeq(t, 1, Len(t) - 1)) ELSE t

\* str.strip()
Strip(t) == RStrip(LStrip(t))

\* str.startswith("[Routing to:")
StartsWithRouting(t) == t # <<>> /\ Head(t) = ROUTING_PREFIX

RECURSIVE Join(_)
Join(parts) == IF parts = <<>> THEN <<>> ELSE Head(parts) \o Join(Tail(parts))

\* 2**attempt
RECURSIVE Pow2(_)
Pow2(n) == IF n = 0 THEN 1 ELSE 2 * Pow2(n - 1)

-----------------------------------------------------------------------------
(* ChatbotState and the checkpointer                                       *)

NoDecision == [agent |-> None, reasoning |-> None]

\* Annotated[List[bytes], lambda x, y: x + y]
MessagesReducer(x, y) == x \o y

\* A thread the checkpointer has never seen: aget_state returns empty values.
NoCheckpoint ==
    [exists |-> FALSE, messages |-> <<>>,
     routing_decision |-> NoDecision, current_agent |-> Missing]

CheckpointWindowed(state) ==
    [exists |-> TRUE, messages |-> LastN(state.messages, MAX_HISTORY_MESSAGES),
     routing_decision |-> state.routing_decision,
     current_agent |-> state.current_agent]

\* The channel values a run of the graph saves for its thread after a step.
Checkpoint(state) ==
    [exists |-> TRUE, messages |-> state.messages,
     routing_decision |-> state.routing_decision,
     current_agent |-> state.current_agent]

ApplyInputKeepRouting(saved, input) ==
    [messages |-> MessagesReducer(saved.messages, input.messages),
     routing_decision |-> saved.routing_decision,
     current_agent |-> saved.current_agent]

ApplyInputKeepAgent(saved, input) ==
    [messages |-> MessagesReducer(saved.messages, input.messages),
     routing_decision |-> input.routing_decision,
     current_agent |-> IF saved.current_agent = Missing THEN None
                       ELSE saved.current_agent]

\* graph.astream(initial_state, config): the input is written to the thread's
\* channels, `messages` through its reducer, the other keys by overwriting.
ApplyInput(saved, input) ==
    [messages |-> MessagesReducer(saved.messages, input.messages),
     routing_decision |-> input.routing_decision,
     current_agent |-> input.current_agent]

\* One serialized transcript entry (result.new_messages_json()): the delta of
\* the turn that was the `turn`-th begun for identifier `id`.
Entry(id, turn) == [id |-> id, turn |-> turn]

NoEntry == [id |-> None, turn |-> 0]

\* ModelMessagesTypeAdapter.validate_json(row): the messages of one entry.
Decode(row) == <<[entry |-> row, part |-> "request"], [entry |-> row, part |-> "response"]>>

ExtendAllCapped(rows) ==
    LastN([k \in 1..(2 * Len(rows)) |-> Decode(rows[(k + 1) \div 2])[2 - (k % 2)]],
          MAX_HISTORY_MESSAGES)

RECURSIVE ExtendAll(_)
ExtendAll(rows) == IF rows = <<>> THEN <<>> ELSE Decode(Head(rows)) \o ExtendAll(Tail(rows))

RecentFirst(messages) == SubSeq(messages, 1, Min(Len(messages), MAX_HISTORY_MESSAGES))

\* state["messages"][-MAX_HISTORY_MESSAGES:]
Recent(messages) == LastN(messages, MAX_HISTORY_MESSAGES)

-----------------------------------------------------------------------------
(* The graph of build_graph                                                *)

routing_map == [l \in Handlers |-> l]

StateGet(state, key) == IF state[key] = Missing THEN None ELSE state[key]

route_after_router_NoFallback(state) ==
    IF StateGet(state, "current_agent") \in {None, ""} THEN "general"
    ELSE state.current_agent

route_after_router(state) ==
    IF StateGet(state, "current_agent") \in {None, ""} THEN "general"
    ELSE IF state.current_agent \in DOMAIN routing_map
         THEN routing_map[state.current_agent]
         ELSE "general"

\* add_conditional_edges("router", route_after_router, {...})
path_map == [l \in Handlers |-> l]

\* The node that runs after `node`: the conditional edge out of the router,
\* the edge to END out of every handler.
NextNode(node, state) ==
    IF node = "router" THEN path_map[route_after_router(state)] ELSE END

-----------------------------------------------------------------------------
(* run_local_chat: reply assembly                                          *)

\* The body of the async-for loop for one streamed event (a str).
CollectEvent(collected, event) ==
    IF Strip(event) # <<>> /\ ~Member(event, collected)
    THEN Append(collected, event)
    ELSE collected

NotRoutingPart(part) == part # <<>> /\ ~StartsWithRouting(part)

FinalResponseNoFallback(collected) ==
    Strip(Join(SelectSeq(collected, NotRoutingPart)))

FinalResponse(collected) ==
    LET final_response == Strip(Join(SelectSeq(collected, NotRoutingPart)))
    IN  IF final_response = <<>> THEN GREETING ELSE final_response

-----------------------------------------------------------------------------
(* Outcomes of the external collaborators                                  *)

\* router_agent.run: a validated RoutingDecision, or an exception.
ClassifierFailures == {"timeout", "quota", "malformed"}

ClassifierOutcomes == Handlers \cup ClassifierFailures

\* agent.run of a handler: a result, a ModelAPIError whose text contains
\* "timed out", another ModelAPIError, UsageLimitExceeded, any other exception.
AgentOutcomes == {"ok", "api_timeout", "api_error", "usage_limit", "other"}

\* result.output of a handler (str).
HandlerOutputs ==
    {<<>>, <<" ">>, <<"hi">>, <<" ", "hi", " ">>, <<ROUTING_PREFIX, "faq]">>}

-----------------------------------------------------------------------------
(* class AIAssistant (lines 265-285)                                       *)

\* _instance is None; nothing has been created.
NoFacade ==
    [instance |-> 0, initialized |-> FALSE,
     instances |-> 0, memories |-> 0, graphs |-> 0]

\* __new__: the instance is created only while _instance is None.
New(f) ==
    IF f.instance = 0
    THEN [f EXCEPT !.instance = f.instances + 1, !.instances = @ + 1,
                   !.initialized = FALSE]
    ELSE f

InitAlways(f) == [f EXCEPT !.memories = @ + 1, !.graphs = @ + 1, !.initialized = TRUE]

\* __init__: returns at once when _initialized, else creates the
\* InMemorySaver and compiles the graph.
InitOnce(f) ==
    IF f.initialized
    THEN f
    ELSE [f EXCEPT !.memories = @ + 1, !.graphs = @ + 1, !.initialized = TRUE]

\* AIAssistant()
Construct(f) == InitOnce(New(f))

\* The checkpointer's contents after a construction: a new InMemorySaver is empty.
StoreAfter(f, g, s) == IF g.memories # f.memories THEN [i \in Ids |-> NoCheckpoint] ELSE s

\* config = {"configurable": {"thread_id": thread_id}} with thread_id = from_number
ThreadIdShared(from_number) == "A"

ThreadId(from_number) == from_number

-----------------------------------------------------------------------------
(* Call slots                                                              *)

\* No payload has been processed.
NoWebhook == [data |-> None, outcome |-> None, run_agent |-> <<>>]

\* No tool has been called.
NoTool == [op |-> None, result |-> [kind |-> None, value |-> None], at |-> 0]

\* The clock when the process starts: day 1, 08:00, in minutes.
StartClock == 1 * 1440 + 8 * 60

EmptyState == [messages |-> <<>>, routing_decision |-> NoDecision, current_agent |-> Missing]

IdleCall ==
    [pc |-> "idle", from_number |-> None, user_message |-> None,
     previous_messages |-> <<>>, collected_output |-> <<>>,
     state |-> EmptyState, node |-> None, attempt |-> 0, turn |-> 0,
     \* history of the turn, for the properties
     before |-> <<>>, trace |-> <<>>, router_in |-> <<>>, router_ctx |-> <<>>,
     agent_in |-> <<>>, agent_ctx |-> <<>>, router_outcome |-> None,
     attempts |-> <<>>, sleeps |-> <<>>, delta |-> NoEntry, delta_attempt |-> 0,
     output |-> <<>>, failure |-> None, result |-> <<>>]

Init ==
    /\ store = [i \in Ids |-> NoCheckpoint]
    /\ call = [c \in Calls |-> IdleCall]
    /\ turns = 0
    /\ done = [i \in Ids |-> [begun |-> 0, ok |-> 0, failed |-> 0]]
    /\ probe = [state |-> EmptyState, node |-> None]
    /\ facade = NoFacade
    /\ requests = [c \in Calls |-> 0]
    /\ webhook = NoWebhook
    /\ APPOINTMENTS_DB = <<>>
    /\ now = StartClock
    /\ tool = NoTool

-----------------------------------------------------------------------------
(* run_agent / run_local_chat as written (lines 353-357, 291-295)          *)

\* AIAssistant().run_agent(user_message, from_number) is called.
Call(c, id, m) ==
    /\ call[c].pc = "idle"
    /\ turns < MaxTurns
    /\ turns' = turns + 1
    /\ call' = [call EXCEPT ![c] =
                   [IdleCall EXCEPT !.pc = "unpack", !.from_number = id,
                                    !.user_message = m]]
    /\ facade' = Construct(facade)
    /\ store' = StoreAfter(facade, facade', store)
    /\ UNCHANGED <<done, probe, requests, toolVars>>

\* Assigning `value` to a target list of `targets` names: the lengths must agree.
UnpackOK(targets, value) == Len(value) = targets

\* collected_output = [], previous_messages = []
\* i.e. collected_output = ([], previous_messages) = []: the empty list is
\* bound to collected_output and then unpacked into a two-element target.
UnpackAssign(c) ==
    /\ call[c].pc = "unpack"
    /\ call' = [call EXCEPT ![c].collected_output = <<>>,
                            ![c].pc = IF UnpackOK(2, <<>>) THEN "load" ELSE "raised",
                            ![c].failure = IF UnpackOK(2, <<>>) THEN None ELSE "ValueError"]
    /\ UNCHANGED <<store, turns, done, probe, facade, requests, webhook, toolVars>>

\* The exception leaves run_local_chat and run_agent (neither catches it)
\* and reaches the route that called run_agent.
Propagate(c) ==
    /\ call[c].pc = "raised"
    /\ call' = [call EXCEPT ![c] = IdleCall]
    /\ UNCHANGED <<store, turns, done, probe, facade, requests, webhook, toolVars>>

-----------------------------------------------------------------------------
(* run_local_chat from its first try block (lines 296-351)                 *)

\* AIAssistant().run_agent(m, id): the body of run_local_chat is entered with
\* collected_output = [] and previous_messages = [].
EnterBody(c, id, m) ==
    /\ call[c].pc = "idle"
    /\ turns < MaxTurns
    /\ Len(store[id].messages) <= MaxStored
    /\ turns' = turns + 1
    /\ done' = [done EXCEPT ![id].begun = @ + 1]
    /\ facade' = Construct(facade)
    /\ store' = StoreAfter(facade, facade', store)
    /\ call' = [call EXCEPT ![c] =
                   [IdleCall EXCEPT !.pc = "load", !.from_number = id,
                                    !.user_message = m,
                                    !.turn = done[id].begun + 1,
                                    !.before = store'[ThreadId(id)].messages]]
    /\ UNCHANGED <<probe, requests, webhook, toolVars>>

\* state_result = await self.graph.aget_state(config) (lines 296-303)
LoadState(c) ==
    /\ call[c].pc = "load"
    /\ LET saved == store[ThreadId(call[c].from_number)]
       IN  call' = [call EXCEPT
                ![c].previous_messages = IF saved.exists THEN saved.messages ELSE <<>>,
                ![c].pc = "astream"]
    /\ UNCHANGED <<store, turns, done, probe, facade, requests, webhook, toolVars>>

\* initial_state (lines 305-311) is handed to self.graph.astream (314-318):
\* the input is applied to the thread's saved channels and checkpointed, and
\* the entry point is scheduled.
StreamStart(c) ==
    /\ call[c].pc = "astream"
    /\ LET id == ThreadId(call[c].from_number)
           initial_state == [messages |-> call[c].previous_messages,
                             routing_decision |-> NoDecision,
                             current_agent |-> None]
           st == ApplyInput(store[id], initial_state)
       IN  /\ call' = [call EXCEPT ![c].state = st, ![c].node = EntryPoint,
                                   ![c].pc = "node"]
           /\ store' = [store EXCEPT ![id] = Checkpoint(st)]
    /\ UNCHANGED <<turns, done, probe, facade, requests, webhook, toolVars>>

\* What router_node returns for an outcome of router_agent.run.
RouterUpdate(out) ==
    IF out \in Handlers
    THEN [routing_decision |-> [agent |-> out, reasoning |-> "model"],
          current_agent |-> out]
    ELSE [routing_decision |-> [agent |-> "general", reasoning |-> "Error in routing"],
          current_agent |-> "general"]

\* router_node (lines 50-79).  `bad` is the first windowed entry whose
\* validate_json raises (0: none); the loop of lines 55-56 is outside the try,
\* so the exception leaves the node and astream raises (line 335).
RouterNodeOn(c, outcomes) ==
    /\ call[c].pc = "node"
    /\ call[c].node = "router"
    /\ LET id == ThreadId(call[c].from_number)
           recent_messages == Recent(call[c].state.messages)
       IN  \E bad \in 0..Len(recent_messages) :
             IF bad # 0
             THEN /\ call' = [call EXCEPT
                        ![c].trace = Append(@, "router"),
                        ![c].router_in = call[c].state.messages,
                        ![c].router_outcome = "decode_error",
                        ![c].failure = "graph",
                        ![c].pc = "except"]
                  /\ UNCHANGED store
             ELSE \E out \in outcomes :
                    LET upd == RouterUpdate(out)
                        st == [call[c].state EXCEPT
                                  !.routing_decision = upd.routing_decision,
                                  !.current_agent = upd.current_agent]
                    IN  /\ call' = [call EXCEPT
                              ![c].trace = Append(@, "router"),
                              ![c].router_in = call[c].state.messages,
                              ![c].router_ctx = ExtendAll(recent_messages),
                              ![c].router_outcome = IF out \in Handlers THEN "ok" ELSE out,
                              ![c].state = st,
                              ![c].node = NextNode("router", st)]
                        /\ store' = [store EXCEPT ![id] = Checkpoint(st)]
    /\ UNCHANGED <<turns, done, probe, facade, requests, webhook, toolVars>>

RouterNode(c) == RouterNodeOn(c, ClassifierOutcomes)

\* A handler node starts: _run_agent builds message_history (lines 123-130).
AgentEnter(c) ==
    /\ call[c].pc = "node"
    /\ call[c].node \in Handlers
    /\ LET recent_messages == Recent(call[c].state.messages)
       IN  \E bad \in 0..Len(recent_messages) :
             IF bad # 0
             THEN call' = [call EXCEPT
                        ![c].trace = Append(@, call[c].node),
                        ![c].agent_in = call[c].state.messages,
                        ![c].failure = "graph",
                        ![c].pc = "except"]
             ELSE call' = [call EXCEPT
                        ![c].trace = Append(@, call[c].node),
                        ![c].agent_in = call[c].state.messages,
                        ![c].agent_ctx = ExtendAll(recent_messages),
                        ![c].attempt = 0,
                        ![c].pc = "attempt"]
    /\ UNCHANGED <<store, turns, done, probe, facade, requests, webhook, toolVars>>

ShouldRetryAnyApiError(outcome, attempt) ==
    outcome \in {"api_timeout", "api_error"} /\ attempt < max_retries - 1

ShouldRetryAlways(outcome, attempt) == outcome = "api_timeout"

\* The retry decision of the `except ModelAPIError` branch (line 167).
ShouldRetry(outcome, attempt) ==
    outcome = "api_timeout" /\ attempt < max_retries - 1

WaitTimeConstant(attempt) == 1

\* wait_time = 2**attempt (line 168)
WaitTime(attempt) == Pow2(attempt)

\* The step that ends a turn on the graph's side: the handler's update is
\* merged into the channels through the reducer and checkpointed, and the
\* successor of the node is scheduled.
FinishNode(c, update, event, fields) ==
    LET id == ThreadId(call[c].from_number)
        st == [call[c].state EXCEPT !.messages = MessagesReducer(@, update)]
        nxt == NextNode(call[c].node, st)
    IN  /\ call' = [call EXCEPT ![c] =
                [fields EXCEPT !.state = st,
                               !.collected_output = CollectEvent(@, event),
                               !.node = nxt,
                               !.pc = IF nxt = END THEN "collect" ELSE "node"]]
        /\ store' = [store EXCEPT ![id] = Checkpoint(st)]

\* One pass of the retry loop of _run_agent (lines 131-182): agent.run is
\* awaited and the outcome handled.
AgentAttemptOn(c, outcomes, outputs) ==
    /\ call[c].pc = "attempt"
    /\ call[c].attempt < max_retries
    /\ \E outcome \in outcomes :
         LET id == call[c].from_number
             me == [call[c] EXCEPT !.attempts = Append(@, outcome)]
         IN  CASE outcome = "ok" ->
                    \* lines 139-165: the output is written to the stream when it
                    \* is not blank, and the delta is returned
                    \E output_str \in outputs :
                      /\ FinishNode(c, <<Entry(id, call[c].turn)>>,
                                    output_str,
                                    [me EXCEPT !.delta = Entry(id, call[c].turn),
                                               !.delta_attempt = call[c].attempt + 1,
                                               !.output = output_str])
                      /\ done' = [done EXCEPT ![id].ok = @ + 1]
               [] outcome \in {"api_timeout", "api_error"} ->
                    \* lines 166-174
                    /\ IF ShouldRetry(outcome, call[c].attempt)
                       THEN call' = [call EXCEPT ![c] =
                                [me EXCEPT !.sleeps = Append(@, WaitTime(call[c].attempt)),
                                           !.pc = "sleep"]]
                       ELSE call' = [call EXCEPT ![c] =
                                [me EXCEPT !.failure = "graph", !.pc = "except"]]
                    /\ UNCHANGED <<store, done>>
               [] OTHER ->
                    \* lines 175-182: the apology is written to the stream and
                    \* an empty delta is returned
                    /\ FinishNode(c, <<>>, APOLOGY_AGENT,
                                  [me EXCEPT !.failure = "agent"])
                    /\ done' = [done EXCEPT ![id].failed = @ + 1]
    /\ UNCHANGED <<turns, probe, facade, webhook, toolVars>>

AgentAttempt(c) ==
    /\ AgentAttemptOn(c, AgentOutcomes, HandlerOutputs)
    /\ UNCHANGED requests

\* The model requests one agent.run can have made when it ends with `outcome`:
\* the run is stopped with UsageLimitExceeded when a request would be the
\* (request_limit + 1)-th, a ModelAPIError comes out of a request that was
\* made, and another exception may come before the first request.
RunRequests(outcome) ==
    CASE outcome = "usage_limit" -> {request_limit}
      [] outcome = "other" -> 0..request_limit
      [] OTHER -> 1..request_limit

\* One pass of the retry loop, with the model requests of its agent.run
\* counted: every pass calls agent.run with a new UsageLimits (line 136).
AgentAttemptCounted(c) ==
    /\ AgentAttemptOn(c, AgentOutcomes, {<<"hi">>})
    /\ LET outcome == call'[c].attempts[Len(call'[c].attempts)]
       IN  \E r \in RunRequests(outcome) :
             requests' = [requests EXCEPT ![c] =
                            (IF call[c].attempts = <<>> THEN 0 ELSE @) + r]

\* await asyncio.sleep(wait_time) ends; `continue` starts the next pass.
BackoffSleep(c) ==
    /\ call[c].pc = "sleep"
    /\ call' = [call EXCEPT ![c].attempt = @ + 1, ![c].pc = "attempt"]
    /\ UNCHANGED <<store, turns, done, probe, facade, requests, webhook, toolVars>>

\* The stream is exhausted: lines 326-351 assemble and return the reply.
Collect(c) ==
    /\ call[c].pc = "collect"
    /\ call' = [call EXCEPT ![c].result = FinalResponse(call[c].collected_output),
                            ![c].pc = "returned"]
    /\ UNCHANGED <<store, turns, done, probe, facade, requests, webhook, toolVars>>

\* astream raised: lines 335-338 return the apology.
GraphExcept(c) ==
    /\ call[c].pc = "except"
    /\ call' = [call EXCEPT ![c].result = APOLOGY_GRAPH, ![c].pc = "returned"]
    /\ done' = [done EXCEPT ![call[c].from_number].failed = @ + 1]
    /\ UNCHANGED <<store, turns, probe, facade, requests, webhook, toolVars>>

\* run_agent hands the reply to its caller (lines 355-357).
Return(c) ==
    /\ call[c].pc = "returned"
    /\ call' = [call EXCEPT ![c] = IdleCall]
    /\ UNCHANGED <<store, turns, done, probe, facade, requests, webhook, toolVars>>

-----------------------------------------------------------------------------
(* Specifications                                                          *)

\* One turn at a time, from the first try block of run_local_chat.
Next ==
    \/ \E id \in Ids, m \in UserMessages : EnterBody(1, id, m)
    \/ LoadState(1)
    \/ StreamStart(1)
    \/ RouterNode(1)
    \/ AgentEnter(1)
    \/ AgentAttempt(1)
    \/ BackoffSleep(1)
    \/ Collect(1)
    \/ GraphExcept(1)
    \/ Return(1)

Spec == Init /\ [][Next]_vars

\* A turn of run_local_chat from its first try block, its requests counted.
EnterCounted(c, id, m) ==
    /\ turns < MaxCountedTurns
    /\ EnterBody(c, id, m)

\* router_node with one label and one failure of the classifier.
RouterNodeCounted(c) == RouterNodeOn(c, {"general", "timeout"})

\* The steps of a turn that has begun: each awaits a collaborator that
\* returns or fails, or a sleep that ends.
TurnStep(c) ==
    \/ LoadState(c)
    \/ StreamStart(c)
    \/ RouterNodeCounted(c)
    \/ AgentEnter(c)
    \/ AgentAttemptCounted(c)
    \/ BackoffSleep(c)
    \/ Collect(c)
    \/ GraphExcept(c)
    \/ Return(c)

NextCounted ==
    \/ \E id \in Ids : EnterCounted(1, id, "hello")
    \/ LoadState(1)
    \/ StreamStart(1)
    \/ RouterNodeCounted(1)
    \/ AgentEnter(1)
    \/ AgentAttemptCounted(1)
    \/ BackoffSleep(1)
    \/ Collect(1)
    \/ GraphExcept(1)
    \/ Return(1)

\* The event loop runs a turn that can take a step.
SpecCounted == Init /\ [][NextCounted]_vars /\ WF_vars(TurnStep(1))

\* A route other than the WhatsApp webhook calls run_agent.
RouteCall(c, id, m) ==
    /\ Call(c, id, m)
    /\ UNCHANGED webhook

\* The calls of run_agent as written, any number of them in flight.
NextCall ==
    \/ \E c \in Calls, id \in Ids, m \in UserMessages : RouteCall(c, id, m)
    \/ \E c \in Calls : UnpackAssign(c)
    \/ \E c \in Calls : Propagate(c)

SpecCall == Init /\ [][NextCall]_vars

\* Calls of run_local_chat in flight together: a request handler awaits at
\* aget_state, at each graph step, at agent.run and at asyncio.sleep, and the
\* event loop runs the other request there.
\* The request takes the first free slot of the event loop.
EnterConc(c, id, m) ==
    /\ turns < MaxConcTurns
    /\ \A d \in Calls : d < c => call[d].pc # "idle"
    /\ EnterBody(c, id, m)

\* The collaborators' outcomes explored with calls in flight together.
ConcClassifierOutcomes == {"general", "timeout"}

ConcAgentOutcomes == {"ok", "api_timeout", "other"}

ConcHandlerOutputs == {<<"hi">>}

AgentAttemptConc(c) ==
    /\ AgentAttemptOn(c, ConcAgentOutcomes, ConcHandlerOutputs)
    /\ UNCHANGED requests

NextConc ==
    \/ \E c \in Calls, id \in Ids : EnterConc(c, id, "hello")
    \/ \E c \in Calls : LoadState(c)
    \/ \E c \in Calls : StreamStart(c)
    \/ \E c \in Calls : RouterNodeOn(c, ConcClassifierOutcomes)
    \/ \E c \in Calls : AgentEnter(c)
    \/ \E c \in Calls : AgentAttemptConc(c)
    \/ \E c \in Calls : BackoffSleep(c)
    \/ \E c \in Calls : Collect(c)
    \/ \E c \in Calls : GraphExcept(c)
    \/ \E c \in Calls : Return(c)

SpecConc == Init /\ [][NextConc]_vars

\* The values a ChatbotState can carry in current_agent: the labels, the
\* value "router" its type allows, null, a missing key, the empty string and
\* strings outside the set.
CurrentAgentValues ==
    Handlers \cup {"router", None, Missing, "", "unknown", "General"}

DecisionValues ==
    {NoDecision} \cup {[agent |-> l, reasoning |-> "model"] : l \in Handlers}
                 \cup {[agent |-> "general", reasoning |-> "Error in routing"]}

\* route_after_router applied to a state.
ProbeRoute(agent, decision) ==
    LET state == [messages |-> <<>>, routing_decision |-> decision,
                  current_agent |-> agent]
    IN  /\ probe' = [state |-> state, node |-> route_after_router(state)]
        /\ UNCHANGED <<store, call, turns, done, facade, requests, webhook, toolVars>>

NextRoute == \E agent \in CurrentAgentValues, decision \in DecisionValues :
                ProbeRoute(agent, decision)

SpecRoute == Init /\ [][NextRoute]_vars

-----------------------------------------------------------------------------
(* api/routes/whatsapp.py: process_whatsapp_message                        *)
(*                                                                         *)
(* A dict is a record of optional values: Absent for a key the dict does   *)
(* not have, Present(v) for a key holding v. A message text is the         *)
(* sequence of its characters.                                             *)

Absent == <<>>

Present(v) == <<v>>

\* d[key], for a key the dict has.
Item(option) == option[1]

\* A text of n characters.
TextOfLength(n) == [i \in 1..n |-> "x"]

WhatsappTexts ==
    {TextOfLength(n) : n \in {1, MAX_MESSAGE_LENGTH, MAX_MESSAGE_LENGTH + 1}}

\* The objects of the "messages" list: text messages, and messages of
\* another type (an image, a location), which have no "text" key.
WhatsappMessages ==
    {[from |-> id, text |-> Present([body |-> t])] : id \in Ids, t \in WhatsappTexts}
    \cup {[from |-> id, text |-> Absent] : id \in Ids}

\* The payloads: data["entry"][0]["changes"][0]["value"] with no "messages"
\* key (a status update), with an empty list, with one message, and a
\* payload whose "entry" list is empty.
WhatsappPayloads ==
    {[entry |-> <<[messages |-> ms]>>] :
        ms \in {Absent, Present(<<>>)}
                 \cup {Present(<<m>>) : m \in WhatsappMessages}}
    \cup {[entry |-> <<>>]}

\* process_whatsapp_message up to line 47: how it ends, and the arguments
\* of run_agent when it gets there.
process_whatsapp_message(data) ==
    IF data.entry = <<>>
    THEN [outcome |-> "IndexError"]
    ELSE LET value == data.entry[1]
         IN  IF value.messages = Absent \/ Item(value.messages) = <<>>
             THEN [outcome |-> "return"]
             ELSE LET message == Item(value.messages)[1]
                  IN  IF message.text = Absent
                      THEN [outcome |-> "KeyError"]
                      ELSE IF Len(Item(message.text).body) > MAX_MESSAGE_LENGTH
                      THEN [outcome |-> "message_too_long"]
                      ELSE [outcome |-> "run_agent",
                            user_text |-> Item(message.text).body,
                            from_number |-> message.from]

\* The background task of the webhook processes one payload.
ProcessWhatsappMessage(c, data) ==
    LET r == process_whatsapp_message(data)
    IN  IF r.outcome = "run_agent"
        THEN /\ Call(c, r.from_number, r.user_text)
             /\ webhook' = [data |-> data, outcome |-> r.outcome,
                            run_agent |-> <<[user_message |-> r.user_text,
                                             from_number |-> r.from_number]>>]
        ELSE /\ webhook' = [data |-> data, outcome |-> r.outcome, run_agent |-> <<>>]
             /\ UNCHANGED <<store, call, turns, done, probe, facade, requests, toolVars>>

NextWhatsapp ==
    \/ \E c \in Calls, data \in WhatsappPayloads : ProcessWhatsappMessage(c, data)
    \/ \E c \in Calls : UnpackAssign(c)
    \/ \E c \in Calls : Propagate(c)

SpecWhatsapp == Init /\ [][NextWhatsapp]_vars

-----------------------------------------------------------------------------
(* tools/scheduling_tools.py                                               *)
(*                                                                         *)
(* A date string "2030-01-DD" is its day DD, a time string "HH:MM" is the  *)
(* pair <<HH, MM>>, a datetime is its minutes since day 0, 00:00, and its  *)
(* isoformat() is the triple <<day, hour, minute>>.                        *)

Properties == {"P1", "P2"}

Phones == Ids

DateStrings == {1, 32}

TimeStrings == {<<7, 0>>, <<9, 0>>, <<9, 30>>, <<10, 0>>}

\* The (date, time) pairs a viewing is asked for: every time of the valid
\* date, and one pair that does not parse.
ViewingTimes == {<<1, t>> : t \in TimeStrings} \cup {<<32, <<9, 0>>>>}

ValueError == -1

Abs(x) == IF x < 0 THEN -x ELSE x

\* datetime.strptime(date, "%Y-%m-%d"): the day, or ValueError.
ParseDate(date) == IF date \in 1..31 THEN date ELSE ValueError

\* datetime.strptime(f"{date} {time}", "%Y-%m-%d %H:%M"): the datetime, or ValueError.
ParseDateTime(date, time) ==
    IF ParseDate(date) # ValueError /\ time[1] \in 0..23 /\ time[2] \in 0..59
    THEN ParseDate(date) * 1440 + time[1] * 60 + time[2]
    ELSE ValueError

\* datetime.isoformat()
IsoFormat(dt) == <<dt \div 1440, (dt % 1440) \div 60, dt % 60>>

\* datetime.fromisoformat(text)
FromIsoFormat(text) == text[1] * 1440 + text[2] * 60 + text[3]

\* datetime.strftime("%H:%M")
FormatHM(dt) == <<(dt % 1440) \div 60, dt % 60>>

\* datetime.date()
DateOf(dt) == dt \div 1440

\* (a - b).total_seconds()
TotalSeconds(a, b) == (a - b) * 60

\* f"APT{n:04d}"
AppointmentId(n) == <<"APT", n>>

AppointmentIds == {AppointmentId(n) : n \in 1..(MaxAppointments + 1)}

ConflictingExact(db, property_id, appointment_datetime) ==
    SelectSeq(db, LAMBDA apt :
        /\ apt.property_id = property_id
        /\ FromIsoFormat(apt.datetime) = appointment_datetime)

\* The list `conflicting` of schedule_viewing (lines 47-51).
Conflicting(db, property_id, appointment_datetime) ==
    SelectSeq(db, LAMBDA apt :
        /\ apt.property_id = property_id
        /\ Abs(TotalSeconds(FromIsoFormat(apt.datetime), appointment_datetime)) < 3600)

Error(text) == [kind |-> "error", value |-> text]

BOOKED == "Time slot is already booked. Please choose another time."

schedule_viewing_AppendFirst(db, clock, property_id, client_phone, preferred_date, preferred_time) ==
    LET appointment_datetime == ParseDateTime(preferred_date, preferred_time)
        appointment == [appointment_id |-> AppointmentId(Len(db) + 1),
                        property_id |-> property_id,
                        client_phone |-> client_phone,
                        datetime |-> IsoFormat(appointment_datetime),
                        status |-> "scheduled"]
    IN  IF appointment_datetime = ValueError
        THEN [db |-> db, result |-> Error("Invalid date or time format")]
        ELSE IF appointment_datetime < clock
        THEN [db |-> db, result |-> Error("Cannot schedule appointments in the past")]
        ELSE IF Conflicting(db, property_id, appointment_datetime) # <<>>
        THEN [db |-> Append(db, appointment), result |-> Error(BOOKED)]
        ELSE [db |-> Append(db, appointment),
              result |-> [kind |-> "success", value |-> appointment]]

\* schedule_viewing (lines 11-80): the list after the call and what is returned.
schedule_viewing(db, clock, property_id, client_phone, preferred_date, preferred_time) ==
    LET appointment_datetime == ParseDateTime(preferred_date, preferred_time)
        appointment == [appointment_id |-> AppointmentId(Len(db) + 1),
                        property_id |-> property_id,
                        client_phone |-> client_phone,
                        datetime |-> IsoFormat(appointment_datetime),
                        status |-> "scheduled"]
    IN  IF appointment_datetime = ValueError
        THEN [db |-> db, result |-> Error("Invalid date or time format")]
        ELSE IF appointment_datetime < clock
        THEN [db |-> db, result |-> Error("Cannot schedule appointments in the past")]
        ELSE IF Conflicting(db, property_id, appointment_datetime) # <<>>
        THEN [db |-> db, result |-> Error(BOOKED)]
        ELSE [db |-> Append(db, appointment),
              result |-> [kind |-> "success", value |-> appointment]]

\* get_available_slots (lines 83-123): the times it reports, or the error.
get_available_slots(db, clock, property_id, date) ==
    LET target_date == ParseDate(date)
        all_slots == [i \in 1..9 |-> target_date * 1440 + (8 + i) * 60]
        booked == SelectSeq(db, LAMBDA apt :
                      /\ apt.property_id = property_id
                      /\ DateOf(FromIsoFormat(apt.datetime)) = target_date)
        booked_slots == {FromIsoFormat(booked[k].datetime) : k \in 1..Len(booked)}
        available == SelectSeq(all_slots, LAMBDA slot :
                         slot \notin booked_slots /\ slot > clock)
    IN  IF target_date = ValueError
        THEN Error("Invalid date format. Use YYYY-MM-DD")
        ELSE [kind |-> "slots", property_id |-> property_id, date |-> date,
              value |-> [k \in 1..Len(available) |-> FormatHM(available[k])]]

\* next(apt for apt in APPOINTMENTS_DB if apt["appointment_id"] == id, None):
\* the index of the first match, 0 for None.
FirstWithId(db, appointment_id) ==
    IF \E k \in 1..Len(db) : db[k].appointment_id = appointment_id
    THEN CHOOSE k \in 1..Len(db) :
            /\ db[k].appointment_id = appointment_id
            /\ \A j \in 1..(k - 1) : db[j].appointment_id # appointment_id
    ELSE 0

cancel_appointment_Removing(db, appointment_id) ==
    LET k == FirstWithId(db, appointment_id)
    IN  IF k = 0
        THEN [db |-> db, result |-> Error(<<"Appointment", appointment_id, "not found">>)]
        ELSE [db |-> SubSeq(db, 1, k - 1) \o SubSeq(db, k + 1, Len(db)),
              result |-> [kind |-> "success", value |-> [db[k] EXCEPT !.status = "cancelled"]]]

\* cancel_appointment (lines 126-150)
cancel_appointment(db, appointment_id) ==
    LET k == FirstWithId(db, appointment_id)
    IN  IF k = 0
        THEN [db |-> db, result |-> Error(<<"Appointment", appointment_id, "not found">>)]
        ELSE [db |-> [db EXCEPT ![k].status = "cancelled"],
              result |-> [kind |-> "success", value |-> [db[k] EXCEPT !.status = "cancelled"]]]

\* list.sort(key=datetime): stable insertion of `apt` into the sorted `sorted`.
RECURSIVE InsertByDatetime(_, _)
InsertByDatetime(sorted, apt) ==
    IF sorted = <<>> THEN <<apt>>
    ELSE IF FromIsoFormat(sorted[Len(sorted)].datetime) <= FromIsoFormat(apt.datetime)
         THEN Append(sorted, apt)
         ELSE Append(InsertByDatetime(SubSeq(sorted, 1, Len(sorted) - 1), apt),
                     sorted[Len(sorted)])

RECURSIVE SortByDatetime(_)
SortByDatetime(list) ==
    IF list = <<>> THEN <<>>
    ELSE InsertByDatetime(SortByDatetime(SubSeq(list, 1, Len(list) - 1)), list[Len(list)])

\* get_client_appointments (lines 153-175)
get_client_appointments(db, client_phone) ==
    [kind |-> "appointments",
     client_phone |-> client_phone,
     value |-> SortByDatetime(SelectSeq(db, LAMBDA apt :
                  apt.client_phone = client_phone /\ apt.status = "scheduled"))]

\* What every tool call leaves alone.
ToolFrame == UNCHANGED <<store, call, turns, done, probe, facade, requests, webhook>>

ScheduleViewing(property_id, client_phone, preferred_date, preferred_time) ==
    LET r == schedule_viewing(APPOINTMENTS_DB, now, property_id, client_phone,
                              preferred_date, preferred_time)
    IN  /\ Len(r.db) <= MaxAppointments
        /\ APPOINTMENTS_DB' = r.db
        /\ tool' = [op |-> "schedule_viewing", result |-> r.result, at |-> now]
        /\ UNCHANGED now
        /\ ToolFrame

GetAvailableSlots(property_id, date) ==
    /\ tool' = [op |-> "get_available_slots",
                result |-> get_available_slots(APPOINTMENTS_DB, now, property_id, date),
                at |-> now]
    /\ UNCHANGED <<APPOINTMENTS_DB, now>>
    /\ ToolFrame

CancelAppointment(appointment_id) ==
    LET r == cancel_appointment(APPOINTMENTS_DB, appointment_id)
    IN  /\ APPOINTMENTS_DB' = r.db
        /\ tool' = [op |-> "cancel_appointment", result |-> r.result, at |-> now]
        /\ UNCHANGED now
        /\ ToolFrame

GetClientAppointments(client_phone) ==
    /\ tool' = [op |-> "get_client_appointments",
                result |-> get_client_appointments(APPOINTMENTS_DB, client_phone),
                at |-> now]
    /\ UNCHANGED <<APPOINTMENTS_DB, now>>
    /\ ToolFrame

\* An hour passes between two tool calls.
Tick ==
    /\ now < StartClock + MaxTicks * 60
    /\ now' = now + 60
    /\ UNCHANGED <<APPOINTMENTS_DB, tool>>
    /\ ToolFrame

NextTools ==
    \/ \E p \in Properties, ph \in Phones, dt \in ViewingTimes :
          ScheduleViewing(p, ph, dt[1], dt[2])
    \/ \E p \in Properties, d \in DateStrings : GetAvailableSlots(p, d)
    \/ \E id \in AppointmentIds : CancelAppointment(id)
    \/ \E ph \in Phones : GetClientAppointments(ph)
    \/ Tick

SpecTools == Init /\ [][NextTools]_vars

-----------------------------------------------------------------------------
(* Properties                                                              *)

InTurn(c) == call[c].pc \notin {"idle", "unpack", "raised"}

Stored(c) == store[call[c].from_number].messages

TurnOver(c) == call[c].pc = "returned"

\* C1: in every turn, however it ends, the stored transcript of the turn's
\* identifier is at most one entry longer than it was before the turn.
C1_AtMostOneAppend ==
    \A c \in Calls :
        InTurn(c) => Len(Stored(c)) <= Len(call[c].before) + 1

\* C2: an identifier whose k turns so far all succeeded has exactly k stored
\* entries, the delta of each turn once and in turn order, and the classifier
\* and the handler of a turn were given exactly the entries stored before it.
C2_OneEntryPerSuccessfulTurn ==
    \A c \in Calls :
        LET id == call[c].from_number
        IN  (TurnOver(c) /\ done[id].failed = 0 /\ done[id].ok = done[id].begun)
            => /\ Stored(c) = [k \in 1..done[id].ok |-> Entry(id, k)]
               /\ (Len(call[c].before) <= MAX_HISTORY_MESSAGES
                   => /\ call[c].router_ctx = ExtendAll(call[c].before)
                      /\ call[c].agent_ctx = ExtendAll(call[c].before))

\* C3: a call of run_agent never raises to its caller and its reply is a
\* non-empty text.
C3_ReplyNeverRaises ==
    \A c \in Calls :
        /\ call[c].pc # "raised"
        /\ TurnOver(c) => Strip(call[c].result) # <<>>

\* C4: when a turn ends in a terminal handler failure the stored transcript is
\* the sequence it was before the turn.
C4_FailureLeavesTranscript ==
    \A c \in Calls :
        (TurnOver(c) /\ call[c].attempts # <<>> /\ call[c].failure # None)
        => Stored(c) = call[c].before

\* C5: whatever current_agent holds, route_after_router selects one of the
\* seven handlers, and selects "general" for every value outside the seven.
C5_RouteIsAHandler ==
    probe.node # None
    => /\ probe.node \in Handlers
       /\ (probe.state.current_agent \notin Handlers => probe.node = "general")

C5_Witness ==
    /\ probe.state.current_agent = "router"
    /\ probe.node = "general"

RouterFailed(c) == call[c].router_outcome \notin {None, "ok"}

\* C6: when the classifier step fails, it ends with the decision "general" and
\* the rationale of the failure, the error does not leave the step, and the
\* turn goes on to a handler.
C6_RouterFailureDegrades ==
    \A c \in Calls :
        RouterFailed(c)
        => /\ call[c].state.current_agent = "general"
           /\ call[c].state.routing_decision =
                  [agent |-> "general", reasoning |-> "Error in routing"]
           /\ call[c].node \in Handlers \cup {END}
           /\ (TurnOver(c) => Len(call[c].trace) = 2)

\* C7: in a turn the router runs first and once, then exactly one handler,
\* then nothing: the nodes run in a turn are <<router, handler>>.
C7_RouterThenOneHandler ==
    \A c \in Calls :
        LET t == call[c].trace
        IN  /\ Len(t) <= 2
            /\ (Len(t) >= 1 => t[1] = "router")
            /\ (Len(t) = 2 => t[2] \in Handlers /\ t[2] = call[c].state.current_agent)
            /\ (call[c].pc \in {"collect", "except", "returned"} =>
                    Len(t) = 2)

ContextOfLast(ctx, messages) ==
    LET L == Len(messages)
        n == IF L < MAX_HISTORY_MESSAGES THEN L ELSE MAX_HISTORY_MESSAGES
    IN  /\ Len(ctx) = 2 * n
        /\ \A i \in 1..n :
             /\ ctx[2 * i - 1].entry = messages[L - n + i]
             /\ ctx[2 * i].entry = messages[L - n + i]

\* The last min(L, 10) entries of a transcript of length L.
LastEntries(messages) ==
    {messages[j] : j \in {k \in 1..Len(messages) :
                              k > Len(messages) - MAX_HISTORY_MESSAGES}}

\* C8: the context of the classifier and of the handler is made of the last
\* min(L, 10) entries of the transcript of length L, in their order, and of
\* nothing older.
C8_ContextIsLastTen ==
    \A c \in Calls :
        /\ call[c].router_outcome \notin {None, "decode_error"}
           => /\ ContextOfLast(call[c].router_ctx, call[c].router_in)
              /\ (call[c].pc = "node" => call[c].router_in = Stored(c))
        /\ call[c].pc \in {"attempt", "sleep"}
           => /\ ContextOfLast(call[c].agent_ctx, call[c].agent_in)
              /\ call[c].agent_in = Stored(c)
              /\ \A i \in 1..Len(call[c].agent_ctx) :
                    call[c].agent_ctx[i].entry \in LastEntries(call[c].before)
                    /\ call[c].router_ctx[i].entry \in LastEntries(call[c].before)

C8_Witness ==
    \E c \in Calls :
        /\ call[c].pc = "attempt"
        /\ Len(Stored(c)) > MAX_HISTORY_MESSAGES
        /\ Len(call[c].router_ctx) = 2 * MAX_HISTORY_MESSAGES
        /\ Len(call[c].agent_ctx) = 2 * MAX_HISTORY_MESSAGES
        /\ call[c].agent_ctx[1].entry = Stored(c)[Len(Stored(c)) - MAX_HISTORY_MESSAGES + 1]

\* C9: a handler that times out twice and then succeeds is invoked three times
\* with delays 1 and 2, and the turn appends exactly one entry, the delta of
\* the third attempt.
C9_ThirdAttemptAppendsOnce ==
    \A c \in Calls :
        (TurnOver(c) /\ call[c].attempts = <<"api_timeout", "api_timeout", "ok">>)
        => /\ call[c].sleeps = <<1, 2>>
           /\ call[c].delta_attempt = 3
           /\ Stored(c) = Append(call[c].before, call[c].delta)

\* C10: at most three attempts; every attempt but the last timed out; a
\* failure that is not a timeout, and a timeout of the third attempt, end the
\* handler with no further attempt and no delay.
C10_RetryOnlyOnTimeout ==
    \A c \in Calls :
        LET a == call[c].attempts
            n == Len(a)
        IN  /\ n <= 3
            /\ \A k \in 1..(n - 1) : a[k] = "api_timeout"
            /\ call[c].pc = "sleep" => (n < 3 /\ a[n] = "api_timeout" /\ Len(call[c].sleeps) = n)
            /\ call[c].pc = "attempt" => (n = call[c].attempt /\ n < 3 /\ Len(call[c].sleeps) = n)
            /\ (n > 0 /\ call[c].pc \notin {"sleep", "attempt"}) => Len(call[c].sleeps) = n - 1
            /\ (n > 0 /\ a[n] \in {"api_error", "usage_limit", "other"})
               => call[c].pc \notin {"sleep", "attempt"}

C10_Witness ==
    \E c \in Calls :
        /\ call[c].attempts = <<"api_timeout", "usage_limit">>
        /\ call[c].sleeps = <<1>>
        /\ TurnOver(c)

\* list `p` is an initial segment of list `t`
IsPrefix(p, t) == Len(p) <= Len(t) /\ SubSeq(t, 1, Len(p)) = p

\* Every row of `rows` is an entry of identifier `id`.
OnlyEntriesOf(id, rows) == \A k \in 1..Len(rows) : rows[k].id = id

\* Every decoded message of `ctx` comes from an entry of identifier `id`.
OnlyMessagesOf(id, ctx) == \A k \in 1..Len(ctx) : ctx[k].entry.id = id

\* C11: with calls for one identifier in flight together, the delta of every
\* turn whose handler succeeded is in the stored transcript of the identifier
\* (no entry is lost), as it is when the turns run one after the other.
C11_NoEntryLost ==
    \A c \in Calls :
        (call[c].pc \in {"collect", "returned"} /\ call[c].delta # NoEntry)
        => Member(call[c].delta, Stored(c))

\* C12: in every step the stored state of an identifier changes only by a
\* step of a call for that identifier, and what a call loads, holds as graph
\* state and builds as context consists of entries of its own identifier only.
C12_Isolation ==
    [][/\ \A id \in Ids :
            store'[id] # store[id]
            => \E c \in Calls : /\ call'[c] # call[c]
                                 /\ call'[c].from_number = id
       /\ \A id \in Ids : OnlyEntriesOf(id, store'[id].messages)
       /\ \A c \in Calls :
            LET id == call'[c].from_number
            IN  /\ OnlyEntriesOf(id, call'[c].previous_messages)
                /\ OnlyEntriesOf(id, call'[c].state.messages)
                /\ OnlyMessagesOf(id, call'[c].router_ctx)
                /\ OnlyMessagesOf(id, call'[c].agent_ctx)]_vars

\* A turn for "B" has loaded and built its contexts, all empty, while a turn
\* for "A" is in flight with its delta stored.
C12_Witness ==
    \E c, d \in Calls :
        /\ call[c].from_number = "A" /\ call[c].pc = "collect"
        /\ store["A"].messages = <<Entry("A", 1)>>
        /\ call[d].from_number = "B" /\ call[d].pc = "attempt"
        /\ call[d].trace = <<"router", call[d].node>>
        /\ call[d].previous_messages = <<>>
        /\ call[d].router_ctx = <<>> /\ call[d].agent_ctx = <<>>
        /\ store["B"].messages = <<>>

\* C13: in every step the stored transcript of every identifier before the
\* step is a prefix of the stored transcript after it: it never shrinks and
\* no stored entry is reordered, replaced or removed.
C13_AppendOnly ==
    [][\A id \in Ids : IsPrefix(store[id].messages, store'[id].messages)]_vars

\* The handler of the turn of call c succeeded with a blank reply and the
\* turn is over.
BlankReply(c) ==
    /\ TurnOver(c)
    /\ call[c].delta # NoEntry
    /\ Strip(call[c].output) = <<>>

\* C14 as stated: when the handler succeeds with an empty or whitespace-only
\* reply, its delta is the last stored entry and no reply text is returned.
C14_BlankReplyReturnsNoText ==
    \A c \in Calls :
        BlankReply(c)
        => /\ Stored(c) # <<>> /\ Stored(c)[Len(Stored(c))] = call[c].delta
           /\ call[c].result = <<>>

\* C14 amended: when the handler succeeds with an empty or whitespace-only
\* reply, its delta is the last stored entry, nothing was collected from the
\* stream and the caller is returned the fixed greeting.
C14_BlankReplyReturnsGreeting ==
    \A c \in Calls :
        BlankReply(c)
        => /\ Stored(c) # <<>> /\ Stored(c)[Len(Stored(c))] = call[c].delta
           /\ call[c].collected_output = <<>>
           /\ call[c].result = GREETING

C14_Witness ==
    \E c \in Calls :
        /\ BlankReply(c)
        /\ call[c].output = <<" ">>
        /\ Stored(c) = <<call[c].delta>>
        /\ call[c].result = GREETING

\* The call c is the first turn ever begun for its identifier.
FirstTurn(c) == InTurn(c) /\ call[c].turn = 1

\* C15: the first turn of an identifier loads an empty transcript without an
\* error, its graph state starts with an empty transcript, no routing decision
\* and no current handler, the classifier and the handler get an empty
\* context, and nothing is decoded, so the turn cannot fail on the load.
C15_UnknownIdLoadsEmpty ==
    \A c \in Calls :
        FirstTurn(c)
        => /\ call[c].before = <<>>
           /\ call[c].previous_messages = <<>>
           /\ call[c].pc \notin {"load", "astream"}
              => /\ call[c].router_outcome # "decode_error"
                 /\ call[c].trace = <<>>
                    => call[c].state = [messages |-> <<>>,
                                        routing_decision |-> NoDecision,
                                        current_agent |-> None]
                 /\ call[c].trace # <<>> => call[c].router_in = <<>> /\ call[c].router_ctx = <<>>
                 /\ Len(call[c].trace) = 2 => call[c].agent_in = <<>> /\ call[c].agent_ctx = <<>>
                 /\ call[c].failure = "graph" => call[c].attempts # <<>>

\* A first turn has run its classifier and its handler on the empty context
\* and ended with a reply.
C15_Witness ==
    \E c \in Calls :
        /\ FirstTurn(c) /\ TurnOver(c)
        /\ call[c].previous_messages = <<>>
        /\ Len(call[c].trace) = 2
        /\ call[c].agent_ctx = <<>>
        /\ call[c].delta # NoEntry
        /\ call[c].failure = None

\* C16: every construction returns the one instance, its memory and its graph
\* are created once and never replaced, and a transcript stored through one
\* construction is there for every later one.
C16_OneFacade ==
    [][/\ facade'.instances <= 1
       /\ facade'.memories <= 1
       /\ facade'.graphs <= 1
       /\ turns' # turns
          => /\ facade'.instance = 1 /\ facade'.initialized
             /\ facade'.memories = 1 /\ facade'.graphs = 1
             /\ facade # NoFacade => facade' = facade
             /\ store' = store]_vars

\* The third construction of the process loads what a turn begun by an
\* earlier construction stored.
C16_Witness ==
    \E c \in Calls :
        /\ turns = 3
        /\ facade.memories = 1
        /\ call[c].pc = "astream"
        /\ call[c].previous_messages # <<>>

\* A windowed entry of the turn of call c failed to decode: the turn left the
\* graph by the exception before any handler attempt.
DecodeAborted(c) ==
    /\ call[c].failure = "graph"
    /\ call[c].attempts = <<>>

\* C17: a windowed entry that fails to decode is skipped and the turn is not
\* aborted: no turn ends by the decoding exception, the classifier's step is
\* never left by it and the handler is still attempted.
C17_BadEntrySkipped ==
    \A c \in Calls :
        /\ call[c].router_outcome # "decode_error"
        /\ ~DecodeAborted(c)

\* `ctx` is made of the whole decoded entries of the window of `messages`,
\* one after the other: the k-th windowed entry gives the k-th block of
\* messages, all of them and in their order, and there is nothing else.
WholeEntries(ctx, messages) ==
    LET window == Recent(messages)
    IN  /\ Len(window) <= MAX_HISTORY_MESSAGES
        /\ Len(ctx) = 2 * Len(window)
        /\ \A k \in 1..Len(window) :
              /\ SubSeq(ctx, 2 * k - 1, 2 * k) = Decode(window[k])
              /\ ctx[2 * k - 1].part = "request"
              /\ ctx[2 * k].part = "response"

\* C18: the context of the classifier and of the handler is the concatenation,
\* in stored order, of all decoded messages of each windowed entry; the window
\* bounds the number of entries and not the number of messages.
C18_ContextOfWholeEntries ==
    \A c \in Calls :
        /\ call[c].router_outcome \notin {None, "decode_error"}
           => WholeEntries(call[c].router_ctx, call[c].router_in)
        /\ call[c].pc \in {"attempt", "sleep"}
           => WholeEntries(call[c].agent_ctx, call[c].agent_in)

\* The handler's context holds the twenty messages of ten entries, with
\* older entries left out of it.
C18_Witness ==
    \E c \in Calls :
        /\ call[c].pc = "attempt"
        /\ Len(call[c].agent_in) > MAX_HISTORY_MESSAGES
        /\ Len(call[c].agent_ctx) = 2 * MAX_HISTORY_MESSAGES
        /\ call[c].agent_ctx[1].part = "request"

\* The step builds a context in the turn of call c (the classifier's or the
\* handler's decoding loop runs).
BuildsContext(c) == Len(call'[c].trace) = Len(call[c].trace) + 1

\* C19: a step that builds the context of the classifier or of the handler
\* leaves the messages of the graph state and the stored transcript as they
\* were, and when the turn is over every entry that was stored when the
\* classifier's context was built, inside the window or not, is still stored.
C19_WindowLeavesTranscript ==
    [][\A c \in Calls :
         /\ BuildsContext(c)
            => /\ call'[c].state.messages = call[c].state.messages
               /\ store'[call[c].from_number].messages
                    = store[call[c].from_number].messages
         /\ (call'[c].pc = "returned" /\ call'[c].trace # <<>>)
            => IsPrefix(call'[c].router_in,
                        store'[call'[c].from_number].messages)]_vars

\* A turn with more than ten stored entries is over, both contexts were
\* built, and the transcript holds the older entries and the new delta.
C19_Witness ==
    \E c \in Calls :
        /\ TurnOver(c)
        /\ Len(call[c].trace) = 2
        /\ Len(call[c].router_in) > MAX_HISTORY_MESSAGES
        /\ Len(call[c].agent_ctx) = 2 * MAX_HISTORY_MESSAGES
        /\ Stored(c) = Append(call[c].router_in, call[c].delta)

\* The retry loop of the turn of call c has ended.
AttemptsOver(c) == call[c].attempts # <<>> /\ call[c].pc \in {"collect", "except", "returned"}

\* Every delay slept in the turn of call c follows an attempt and is followed
\* by one before the loop ends: the k-th delay is 2^(k-1), it follows the k-th
\* attempt, which timed out, and none follows the last attempt.
DelaysBetweenAttempts(c) ==
    /\ \A k \in 1..Len(call[c].sleeps) :
          /\ call[c].sleeps[k] = Pow2(k - 1)
          /\ k <= Len(call[c].attempts)
          /\ call[c].attempts[k] = "api_timeout"
    /\ call[c].pc = "sleep" => Len(call[c].sleeps) = Len(call[c].attempts)
    /\ AttemptsOver(c) => Len(call[c].sleeps) = Len(call[c].attempts) - 1

AllTimedOut(c) ==
    /\ AttemptsOver(c)
    /\ call[c].attempts = [k \in 1..max_retries |-> "api_timeout"]

\* C20 as stated: the delays are 1, 2, 4, doubling from 1, each between two
\* attempts and none after the last; a turn that uses up its attempts on
\* timeouts has slept the delays 1, 2 and 4.
C20_DelaysOneTwoFour ==
    \A c \in Calls :
        /\ DelaysBetweenAttempts(c)
        /\ AllTimedOut(c) => call[c].sleeps = <<1, 2, 4>>

\* C20 amended: the delays double from 1, each between two attempts and none
\* after the last; with three attempts there are at most two delays, 1 and 2,
\* and a turn that uses up its attempts on timeouts has slept exactly those.
C20_DelaysOneTwo ==
    \A c \in Calls :
        /\ DelaysBetweenAttempts(c)
        /\ Len(call[c].sleeps) <= max_retries - 1
        /\ AllTimedOut(c) => call[c].sleeps = <<1, 2>>

C20_Witness ==
    \E c \in Calls :
        /\ AllTimedOut(c)
        /\ call[c].pc = "except"
        /\ call[c].sleeps = <<1, 2>>

\* The turn of call c is over and it failed: the handler's step ended by an
\* exception it caught ("agent") or the graph raised ("graph").
FailedTurn(c) == TurnOver(c) /\ call[c].failure # None

\* C21: any two turns that ended on a failure path returned the same text to
\* their callers, whichever failure path each of them took.
C21_OneApology ==
    \A c, d \in Calls :
        (FailedTurn(c) /\ FailedTurn(d)) => call[c].result = call[d].result

\* C22: the model requests made by the handler of one turn, over all the
\* attempts of its retry loop, are at most 3.
C22_AtMostThreeRequests ==
    \A c \in Calls : requests[c] <= 3

\* The classifier steps of a turn's trace.
RouterSteps(t) == SelectSeq(t, LAMBDA n : n = "router")

TurnLabel(c) ==
    IF call[c].router_outcome = "ok"
    THEN call[c].state.routing_decision.agent
    ELSE "general"

\* C24: every turn starts its graph with no routing decision and no current
\* handler, whatever an earlier turn of the identifier stored, and the handler
\* it runs is the one of its own classifier result or of the failure fallback.
C24_RoutingFreshEachTurn ==
    \A c \in Calls :
        /\ (call[c].pc = "node" /\ call[c].trace = <<>>)
           => /\ call[c].state.routing_decision = NoDecision
              /\ call[c].state.current_agent = None
        /\ Len(call[c].trace) = 2
           => /\ call[c].router_outcome \in {"ok"} \cup ClassifierFailures
              /\ call[c].router_outcome # "ok"
                 => call[c].state.routing_decision.reasoning = "Error in routing"
              /\ call[c].trace[2] = TurnLabel(c)
              /\ call[c].state.current_agent = TurnLabel(c)

\* The second turn of an identifier, whose first turn stored an entry and a
\* label, runs the handler of its own classifier result.
C24_Witness ==
    \E c \in Calls :
        /\ call[c].turn = 2
        /\ call[c].before = <<Entry(call[c].from_number, 1)>>
        /\ call[c].pc = "attempt"
        /\ call[c].router_outcome = "ok"
        /\ call[c].trace = <<"router", "scheduling">>

\* C25: when the handler succeeds with a reply that is not blank, the caller is
\* returned that reply with leading and trailing whitespace removed, whatever
\* the reply is.
C25_ReplyReturnedStripped ==
    \A c \in Calls :
        (TurnOver(c) /\ call[c].delta # NoEntry /\ Strip(call[c].output) # <<>>)
        => call[c].result = Strip(call[c].output)

\* get_available_slots was the last tool call and no time has passed since.
SlotsJustReported ==
    /\ tool.op = "get_available_slots"
    /\ tool.result.kind = "slots"
    /\ tool.at = now

\* C26: every time get_available_slots has just reported as available can be
\* booked: schedule_viewing for that property, date and time succeeds, for any
\* client.
C26_AvailableIsBookable ==
    SlotsJustReported
    => \A k \in 1..Len(tool.result.value), ph \in Phones :
          schedule_viewing(APPOINTMENTS_DB, now, tool.result.property_id, ph,
                           tool.result.date, tool.result.value[k]).result.kind
            = "success"

\* C27: no two appointments of one property are less than 3600 seconds apart,
\* cancelled ones included, and no two appointments share an appointment_id.
C27_SpacedAndDistinct ==
    \A i, j \in 1..Len(APPOINTMENTS_DB) :
        i # j
        => /\ APPOINTMENTS_DB[i].appointment_id # APPOINTMENTS_DB[j].appointment_id
           /\ APPOINTMENTS_DB[i].property_id = APPOINTMENTS_DB[j].property_id
              => Abs(TotalSeconds(FromIsoFormat(APPOINTMENTS_DB[i].datetime),
                                  FromIsoFormat(APPOINTMENTS_DB[j].datetime))) >= 3600

\* Two appointments of one property exactly an hour apart, the first of them
\* cancelled, and a third booking between them has just been refused.
C27_Witness ==
    /\ Len(APPOINTMENTS_DB) = 2
    /\ APPOINTMENTS_DB[1].property_id = APPOINTMENTS_DB[2].property_id
    /\ APPOINTMENTS_DB[1].status = "cancelled"
    /\ APPOINTMENTS_DB[1].datetime = <<1, 9, 0>>
    /\ APPOINTMENTS_DB[2].datetime = <<1, 10, 0>>
    /\ tool.op = "schedule_viewing"
    /\ tool.result = Error(BOOKED)

C29_ErrorLeavesList ==
    [][(tool'.op \in {"schedule_viewing", "cancel_appointment"}
        /\ tool'.result.kind = "error")
       => APPOINTMENTS_DB' = APPOINTMENTS_DB]_vars

\* Each error of the two functions has been returned with appointments in
\* the list: a refused slot, here, and the list is as it was.
C29_Witness ==
    /\ tool.op = "schedule_viewing"
    /\ tool.result = Error(BOOKED)
    /\ Len(APPOINTMENTS_DB) = 1
    /\ APPOINTMENTS_DB[1].status = "scheduled"

\* The payload holds no message: no "messages" key, or an empty list.
NoMessages(data) ==
    \/ data.entry = <<>>
    \/ data.entry[1].messages = Absent
    \/ Item(data.entry[1].messages) = <<>>

\* The sender of the first message of the payload.
Sender(data) == Item(data.entry[1].messages)[1].from

\* The first message of the payload is a text of more than 2000 characters.
TooLong(data) ==
    /\ ~NoMessages(data)
    /\ Item(data.entry[1].messages)[1].text # Absent
    /\ Len(Item(Item(data.entry[1].messages)[1].text).body) > 2000

\* C30: processing a payload with no messages, or with a text longer than 2000
\* characters, calls run_agent not at all; processing any other payload calls
\* it exactly once, with the sender's number as the identifier.
C30_OneCallUnlessLongOrEmpty ==
    webhook.outcome # None
    => IF NoMessages(webhook.data) \/ TooLong(webhook.data)
       THEN webhook.run_agent = <<>>
       ELSE /\ Len(webhook.run_agent) = 1
            /\ webhook.run_agent[1].from_number = Sender(webhook.data)

====
